---- MODULE Spec2Model ----
(***************************************************************************)
(* HIR builder and reference resolver of rhai-lsp                          *)
(* (crates/hir/src/module/edit.rs).                                        *)
(*                                                                         *)
(* The builder is a recursive descent over the CST.  Its call stack is the *)
(* variable `stack` (one frame per running add_expression call); the CST   *)
(* is the input, read node by node as the descent reaches it and recorded  *)
(* in `cst`.  A handle is the index of its entry in the arena; 0 is the    *)
(* default (null) handle and also stands for Option::None.  A syntax       *)
(* pointer is the path of the CST node from the root: a sequence of        *)
(* <<part, index>> steps whose lexicographic order is the textual order.   *)
(* Payload with no bearing on the shape of the graph (docs, operator       *)
(* tokens, selection_syntax, literal values) is left out.                  *)
(*                                                                         *)
(* Type formatter of rhai-lsp (crates/rhai-hir/src/ty.rs).  `types` is the *)
(* type arena, `ty` the handle last formatted and `out` the text written   *)
(* for it.  A text is a sequence of one-character strings.                 *)
(***************************************************************************)
EXTENDS Integers, Sequences, FiniteSets, TLC

VARIABLES module, stack, cst, ret, phase, nodes, types, ty, out

hirvars == <<module, stack, cst, ret, phase, nodes>>
tyvars == <<types, ty, out>>
vars == <<module, stack, cst, ret, phase, nodes, types, ty, out>>

\* ------------------------------------------------------------------ bounds
\* CST nodes (expressions, parameters, pattern identifiers, path segments,
\* switch arms, else-if branches) read by one build.
MaxNodes == 3

\* Entries of the type arena.
MaxTypes == 3

\* Identifier texts.  "" is the name a missing identifier token yields
\* (unwrap_or_default).
Names == {"a"}
NameTokens == Names \cup {""}

\* ------------------------------------------------------------------ helpers
Range(s) == {s[i] : i \in 1..Len(s)}

\* IndexSet::insert: appends unless already present.
IndexInsert(s, x) == IF x \in Range(s) THEN s ELSE Append(s, x)

PathStep(part, idx) == <<<<part, idx>>>>

\* ------------------------------------------------------------------ data
SymbolData(kind, syntax) ==
    [kind |-> kind, syntax |-> syntax, parent_scope |-> 0, name |-> "",
     target |-> 0, references |-> {}, scope |-> 0, value |-> 0,
     ops |-> <<>>, pairs |-> <<>>,
     is_const |-> FALSE, is_param |-> FALSE, is_pat |-> FALSE,
     part_of_path |-> FALSE]

ScopeData(parent_symbol, syntax) ==
    [parent_symbol |-> parent_symbol, syntax |-> syntax,
     symbols |-> <<>>, hoisted_symbols |-> <<>>]

\* self.symbols.insert(data); the new handle is Len of the result.
InsertSymbol(m, data) == [m EXCEPT !.symbols = Append(@, data)]

create_scope(m, parent_symbol, syntax) ==
    [m EXCEPT !.scopes = Append(@, ScopeData(parent_symbol, syntax))]

\* A variant of add_to_scope that files a hoisted symbol under both sets.
add_to_scope_both(m, scope, symbol, hoist) ==
    [m EXCEPT !.scopes[scope].hoisted_symbols =
                    IF hoist THEN IndexInsert(@, symbol) ELSE @,
              !.scopes[scope].symbols = IndexInsert(@, symbol),
              !.symbols[symbol].parent_scope = scope]

add_to_scope(m, scope, symbol, hoist) ==
    LET s == m.scopes[scope]
        pre == /\ symbol \notin Range(s.symbols)
               /\ symbol \notin Range(s.hoisted_symbols)
               /\ m.symbols[symbol].parent_scope = 0
    IN  [m EXCEPT !.scopes[scope].hoisted_symbols =
                        IF hoist THEN IndexInsert(@, symbol) ELSE @,
                  !.scopes[scope].symbols =
                        IF hoist THEN @ ELSE IndexInsert(@, symbol),
                  !.symbols[symbol].parent_scope = scope,
                  !.debug_ok = @ /\ pre]

set_as_parent_symbol(m, symbol, scope) ==
    [m EXCEPT !.scopes[scope].parent_symbol = symbol,
              !.debug_ok = @ /\ (m.scopes[scope].parent_symbol = 0)]

\* ------------------------------------------------------------------ frames
Frame(kind, scope, path, name, pc) ==
    [kind |-> kind, scope |-> scope, path |-> path, name |-> name, pc |-> pc,
     sub |-> 0, sym |-> 0, vals |-> <<>>, pairs |-> <<>>, left |-> 0,
     bpath |-> path, n |-> 0]

Out(m, f) == [m |-> m, f |-> f]
Res(m, v) == [m |-> m, ret |-> v]

LeafKinds == {"Ident", "Lit", "Continue", "PathNone"}
CompositeKinds ==
    {"Path", "Let", "Const", "Block", "Unary", "Binary", "Paren", "Array",
     "Index", "Object", "Call", "Closure", "If", "Loop", "For", "While",
     "Break", "Switch", "Return", "Fn", "Import"}
AllKinds == LeafKinds \cup CompositeKinds

\* ------------------------------------------------------------------ leaves
ExprIdent(m, scope, path, name) ==
    LET m1 == InsertSymbol(m, [SymbolData("Reference", path) EXCEPT !.name = name])
        symbol == Len(m1.symbols)
    IN  Res(add_to_scope(m1, scope, symbol, FALSE), symbol)

ExprLit(m, scope, path) ==
    LET m1 == InsertSymbol(m, SymbolData("Lit", path))
        symbol == Len(m1.symbols)
    IN  Res(add_to_scope(m1, scope, symbol, FALSE), symbol)

ExprContinue(m, scope, path) ==
    LET m1 == InsertSymbol(m, SymbolData("Continue", path))
        symbol == Len(m1.symbols)
    IN  Res(add_to_scope(m1, scope, symbol, FALSE), symbol)

\* Expr::Path whose path() is None: `return None`.
ExprPathNone(m) == Res(m, 0)

Leaf(kind, m, scope, path, name) ==
    CASE kind = "Ident" -> ExprIdent(m, scope, path, name)
      [] kind = "Lit" -> ExprLit(m, scope, path)
      [] kind = "Continue" -> ExprContinue(m, scope, path)
      [] kind = "PathNone" -> ExprPathNone(m)

\* ------------------------------------------------------------------ begin
\* The part of each handler that runs before its first sub-expression.
\* A variant of the block handler that lowers the statements of the block
\* into the enclosing scope.
ExprBlockBegin_flat(m, scope, path) ==
    LET m1 == create_scope(m, 0, path)
        block_scope == Len(m1.scopes)
        m2 == InsertSymbol(m1, [SymbolData("Block", path) EXCEPT !.scope = scope])
        symbol == Len(m2.symbols)
    IN  Out(set_as_parent_symbol(m2, symbol, block_scope),
            [Frame("Block", scope, path, "", "stmts") EXCEPT
                !.sub = scope, !.sym = symbol])

ExprBlockBegin(m, scope, path) ==
    LET m1 == create_scope(m, 0, path)
        block_scope == Len(m1.scopes)
        \* BlockSymbol { scope }: the scope the block is lowered into.
        m2 == InsertSymbol(m1, [SymbolData("Block", path) EXCEPT !.scope = scope])
        symbol == Len(m2.symbols)
    IN  Out(set_as_parent_symbol(m2, symbol, block_scope),
            [Frame("Block", scope, path, "", "stmts") EXCEPT
                !.sub = block_scope, !.sym = symbol])

ExprClosureBegin(m, scope, path) ==
    LET m1 == create_scope(m, 0, path)
    IN  Out(m1, [Frame("Closure", scope, path, "", "params") EXCEPT
                    !.sub = Len(m1.scopes)])

ExprIfBegin(m, scope, path) ==
    LET m1 == InsertSymbol(m, SymbolData("If", path))
    IN  Out(m1, [Frame("If", scope, path, "", "cond") EXCEPT
                    !.sym = Len(m1.symbols)])

ExprLoopBegin(m, scope, path) ==
    LET m1 == create_scope(m, 0, path \o PathStep(1, 0))
    IN  Out(m1, [Frame("Loop", scope, path, "", "stmts") EXCEPT
                    !.sub = Len(m1.scopes)])

ExprForBegin(m, scope, path) ==
    LET m1 == create_scope(m, 0, path \o PathStep(3, 0))
    IN  Out(m1, [Frame("For", scope, path, "", "pat") EXCEPT
                    !.sub = Len(m1.scopes)])

ExprWhileBegin(m, scope, path) ==
    LET m1 == create_scope(m, 0, path \o PathStep(2, 0))
    IN  Out(m1, [Frame("While", scope, path, "", "stmts") EXCEPT
                    !.sub = Len(m1.scopes)])

ExprFnBegin(m, scope, path, name) ==
    LET m1 == create_scope(m, 0, path)
    IN  Out(m1, [Frame("Fn", scope, path, name, "params") EXCEPT
                    !.sub = Len(m1.scopes)])

\* `alias` is built before `expr` is lowered; name "" stands for no alias.
ExprImportBegin(m, scope, path, name) ==
    LET m1 == InsertSymbol(m, [SymbolData("Decl", path \o PathStep(2, 1))
                                    EXCEPT !.name = name])
    IN  IF name = ""
        THEN Out(m, Frame("Import", scope, path, name, "expr"))
        ELSE Out(m1, [Frame("Import", scope, path, name, "expr") EXCEPT
                        !.left = Len(m1.symbols)])

FirstPc(kind) ==
    CASE kind = "Path" -> "segs"
      [] kind \in {"Let", "Const"} -> "init"
      [] kind = "Unary" -> "rhs"
      [] kind \in {"Binary", "Call"} -> "lhs"
      [] kind = "Paren" -> "inner"
      [] kind = "Array" -> "values"
      [] kind = "Index" -> "base"
      [] kind = "Object" -> "fields"
      [] kind \in {"Break", "Return"} -> "expr"
      [] kind = "Switch" -> "target"

Begin(kind, m, scope, path, name) ==
    CASE kind = "Block" -> ExprBlockBegin(m, scope, path)
      [] kind = "Closure" -> ExprClosureBegin(m, scope, path)
      [] kind = "If" -> ExprIfBegin(m, scope, path)
      [] kind = "Loop" -> ExprLoopBegin(m, scope, path)
      [] kind = "For" -> ExprForBegin(m, scope, path)
      [] kind = "While" -> ExprWhileBegin(m, scope, path)
      [] kind = "Fn" -> ExprFnBegin(m, scope, path, name)
      [] kind = "Import" -> ExprImportBegin(m, scope, path, name)
      [] OTHER -> Out(m, Frame(kind, scope, path, name, FirstPc(kind)))

\* ------------------------------------------------------------------ slots
OptPc == {"rhs", "expr", "lhs", "base", "index", "inner", "init", "body",
          "cond", "iterable", "target", "arm_pat", "arm_value"}
ListPc == {"stmts", "values", "args", "then", "else"}
ReqPc == {"fvalue"}
NamePc == {"params", "pat", "segs", "fields"}

\* A variant of ChildScope that lowers the body statements of a fn into the
\* fn's own scope.
ChildScope_fn_body(f) ==
    CASE f.pc \in {"then", "else"} -> f.sub
      [] f.pc = "stmts" /\ f.kind \in {"Block", "Loop", "For", "While", "Fn"} -> f.sub
      [] f.pc = "body" -> f.sub
      [] f.pc = "init" -> f.sub
      [] OTHER -> f.scope

\* The scope a sub-expression in the frame's current slot is lowered into.
ChildScope(f) ==
    CASE f.pc \in {"then", "else"} -> f.sub
      [] f.pc = "stmts" /\ f.kind \in {"Block", "Loop", "For", "While"} -> f.sub
      [] f.pc = "body" -> f.sub
      [] f.pc = "init" -> f.sub
      \* Fn: self.add_statements(scope, body.statements())
      [] OTHER -> f.scope

\* Textual part of the construct the frame's current slot is.
Part(f) ==
    CASE f.pc = "rhs" -> IF f.kind = "Binary" THEN 2 ELSE 1
      [] f.pc \in {"expr", "base", "inner", "init", "fvalue", "target",
                   "arm_pat", "lhs", "values", "segs", "params", "pat",
                   "fields"} -> 1
      [] f.pc \in {"index", "args", "body", "iterable", "arm_value",
                   "then"} -> 2
      [] f.pc = "else" -> 3
      [] f.pc = "cond" -> 1
      [] f.pc = "stmts" ->
            CASE f.kind \in {"Block", "Loop", "Rhai"} -> 1
              [] f.kind \in {"While", "Fn"} -> 2
              [] f.kind = "For" -> 3

SlotBase(f) ==
    CASE f.kind = "If" -> f.bpath
      [] f.kind = "Switch" /\ f.pc \in {"arm_pat", "arm_value"} ->
            f.path \o PathStep(2, Len(f.pairs) + 1)
      [] OTHER -> f.path

ChildPath(f) ==
    SlotBase(f) \o PathStep(Part(f), IF f.pc \in ListPc \cup NamePc \cup ReqPc
                                      THEN f.n + 1 ELSE 1)

\* ------------------------------------------------------------------ steps
\* Code that runs when a sub-expression is present, before it is lowered:
\* `let`/`const` create the scope of the initializer only then.
Enter(m, f) ==
    IF f.pc = "init"
    THEN LET m1 == create_scope(m, 0, ChildPath(f))
         IN  Out(m1, [f EXCEPT !.sub = Len(m1.scopes)])
    ELSE Out(m, f)

\* ObjectSymbol.fields is an IndexMap: a repeated key keeps its place and
\* takes the new value.
MapInsert(pairs, k, v) ==
    IF \E i \in 1..Len(pairs) : pairs[i][1] = k
    THEN [i \in 1..Len(pairs) |-> IF pairs[i][1] = k THEN <<k, v>> ELSE pairs[i]]
    ELSE Append(pairs, <<k, v>>)

\* filter_map(...).collect(): a None is dropped.
Collect(vals, v) == IF v = 0 THEN vals ELSE IndexInsert(vals, v)

\* if-chain, one branch: after the condition, the scope of the body is
\* created and adopted by the If symbol.
IfThenScope(m, f, v) ==
    LET m1 == create_scope(m, 0, f.bpath \o PathStep(2, 0))
        then_scope == Len(m1.scopes)
    IN  Out(set_as_parent_symbol(m1, f.sym, then_scope),
            [f EXCEPT !.left = v, !.sub = then_scope, !.pc = "then", !.n = 0])

\* The sub-expression of the frame's current slot returned v (0: None; an
\* absent sub-expression is a None as well): the handler runs on to its next
\* slot.
Deliver(m, f, v) ==
    CASE f.pc \in {"rhs", "expr", "inner", "index", "body", "iterable"} ->
            Out(m, [f EXCEPT !.vals = Append(@, v), !.pc = "fin"])
      [] f.pc = "cond" /\ f.kind = "While" ->
            Out(m, [f EXCEPT !.vals = Append(@, v), !.pc = "fin"])
      [] f.pc = "cond" /\ f.kind = "If" -> IfThenScope(m, f, v)
      [] f.pc = "init" -> Out(m, [f EXCEPT !.pc = "fin"])
      [] f.pc = "lhs" /\ f.kind = "Binary" ->
            Out(m, [f EXCEPT !.vals = Append(@, v), !.pc = "rhs"])
      [] f.pc = "lhs" /\ f.kind = "Call" ->
            Out(m, [f EXCEPT !.left = v, !.pc = "args"])
      [] f.pc = "base" -> Out(m, [f EXCEPT !.vals = Append(@, v), !.pc = "index"])
      [] f.pc = "target" -> Out(m, [f EXCEPT !.vals = Append(@, v), !.pc = "arms"])
      [] f.pc = "arm_pat" -> Out(m, [f EXCEPT !.left = v, !.pc = "arm_value"])
      [] f.pc = "arm_value" ->
            Out(m, [f EXCEPT !.pairs = Append(@, <<f.left, v>>), !.left = 0,
                             !.pc = "arms"])
      [] f.pc \in {"stmts", "then", "else"} -> Out(m, [f EXCEPT !.n = @ + 1])
      [] f.pc \in {"values", "args"} ->
            Out(m, [f EXCEPT !.vals = Collect(@, v), !.n = @ + 1])
      [] f.pc = "fvalue" ->
            Out(m, [f EXCEPT !.pairs = MapInsert(@, f.name, v), !.n = @ + 1,
                             !.pc = "fields"])

\* A variant of NameEvent that attaches a binder to the enclosing scope.
NameEvent_enclosing(m, f, name) ==
    LET path == ChildPath(f)
        decl == [SymbolData("Decl", path) EXCEPT !.name = name,
                    !.is_param = (f.pc = "params"), !.is_pat = (f.pc = "pat")]
        seg == [SymbolData("Reference", path) EXCEPT !.name = name,
                    !.part_of_path = TRUE]
        m1 == InsertSymbol(m, IF f.pc = "segs" THEN seg ELSE decl)
        symbol == Len(m1.symbols)
    IN  CASE f.pc \in {"params", "pat", "segs"} ->
                Out(add_to_scope(m1, f.scope, symbol, FALSE),
                    [f EXCEPT !.n = @ + 1,
                              !.vals = IF f.pc = "segs" THEN Append(@, symbol) ELSE @])
          [] f.pc = "fields" -> Out(m, [f EXCEPT !.name = name, !.pc = "fvalue"])

\* A parameter, pattern identifier or path segment: its symbol is inserted
\* and attached at once.  An object field only records its property name.
NameEvent(m, f, name) ==
    LET path == ChildPath(f)
        decl == [SymbolData("Decl", path) EXCEPT !.name = name,
                    !.is_param = (f.pc = "params"), !.is_pat = (f.pc = "pat")]
        seg == [SymbolData("Reference", path) EXCEPT !.name = name,
                    !.part_of_path = TRUE]
        m1 == InsertSymbol(m, IF f.pc = "segs" THEN seg ELSE decl)
        symbol == Len(m1.symbols)
    IN  CASE f.pc \in {"params", "pat"} ->
                Out(add_to_scope(m1, f.sub, symbol, FALSE), [f EXCEPT !.n = @ + 1])
          [] f.pc = "segs" ->
                Out(add_to_scope(m1, f.scope, symbol, FALSE),
                    [f EXCEPT !.n = @ + 1, !.vals = Append(@, symbol)])
          [] f.pc = "fields" -> Out(m, [f EXCEPT !.name = name, !.pc = "fvalue"])

\* A variant of PushBranch that puts the new branch first.
PushBranch_front(m, f, cond) ==
    [m EXCEPT !.symbols[f.sym].pairs = <<<<cond, f.sub>>>> \o @]

\* The branches of an if symbol: branches.push((condition, scope)).
PushBranch(m, f, cond) ==
    [m EXCEPT !.symbols[f.sym].pairs = Append(@, <<cond, f.sub>>)]

\* The list of the frame's current slot ends.
EndEvent(m, f) ==
    CASE f.pc = "then" -> Out(PushBranch(m, f, f.left), [f EXCEPT !.pc = "tail"])
      [] f.pc = "else" -> Out(PushBranch(m, f, 0), [f EXCEPT !.pc = "fin"])
      [] f.pc = "stmts" /\ f.kind = "For" ->
            Out(m, [f EXCEPT !.pc = "iterable", !.n = 0])
      [] f.pc = "stmts" /\ f.kind = "While" ->
            Out(m, [f EXCEPT !.pc = "cond", !.n = 0])
      [] f.pc = "params" /\ f.kind = "Closure" ->
            Out(m, [f EXCEPT !.pc = "body", !.n = 0])
      [] f.pc \in {"params", "pat"} /\ f.kind \in {"Fn", "For"} ->
            Out(m, [f EXCEPT !.pc = "stmts", !.n = 0])
      [] OTHER -> Out(m, [f EXCEPT !.pc = "fin"])

\* What follows the body of an if branch: a trailing else, an else-if (the
\* nested If node of the CST), or nothing.
TailEvent(m, f, ev) ==
    CASE ev = "else" ->
            LET m1 == create_scope(m, 0, f.bpath \o PathStep(3, 0))
                then_scope == Len(m1.scopes)
            IN  Out(set_as_parent_symbol(m1, f.sym, then_scope),
                    [f EXCEPT !.sub = then_scope, !.pc = "else", !.n = 0])
      [] ev = "elseif" ->
            Out(m, [f EXCEPT !.bpath = @ \o PathStep(4, 1), !.pc = "cond"])
      [] ev = "none" -> Out(m, [f EXCEPT !.pc = "fin"])

\* A switch arm begins: with the discard token, or with a pattern expression
\* (or neither).
ArmEvent(m, f, ev) ==
    CASE ev = "discard" ->
            LET m1 == InsertSymbol(m, SymbolData("Discard", ChildPath([f EXCEPT !.pc = "arm_pat"])))
            IN  Out(m1, [f EXCEPT !.left = Len(m1.symbols), !.pc = "arm_value"])
      [] ev = "arm" -> Out(m, [f EXCEPT !.left = 0, !.pc = "arm_pat"])

\* ------------------------------------------------------------------ finish
\* The part of each handler that runs after its last sub-expression: the
\* symbol is inserted (unless it was at the start), attached, and returned.
Attach(m, data, scope, hoist) ==
    LET m1 == InsertSymbol(m, data)
        symbol == Len(m1.symbols)
    IN  Res(add_to_scope(m1, scope, symbol, hoist), symbol)

ExprPathFinish(m, f) ==
    Attach(m, [SymbolData("Path", f.path) EXCEPT !.ops = f.vals], f.scope, FALSE)

ExprLetFinish(m, f) ==
    LET value == f.sub
        m1 == InsertSymbol(m, [SymbolData("Decl", f.path) EXCEPT
                                  !.name = f.name, !.value = value,
                                  !.is_const = (f.kind = "Const")])
        symbol == Len(m1.symbols)
        m2 == IF value # 0 THEN set_as_parent_symbol(m1, symbol, value) ELSE m1
    IN  Res(add_to_scope(m2, f.scope, symbol, FALSE), symbol)

\* A variant of the block handler that adopts the block scope a second
\* time when the block ends.
ExprBlockFinish_readopt(m, f) ==
    Res(add_to_scope(set_as_parent_symbol(m, f.sym, f.sub), f.scope, f.sym, FALSE),
        f.sym)

ExprBlockFinish(m, f) == Res(add_to_scope(m, f.scope, f.sym, FALSE), f.sym)

\* A variant of the operator handlers that gives up when an operand is
\* missing.
ExprOperatorFinish_strict(m, f) ==
    IF 0 \in Range(f.vals)
    THEN Res(m, 0)
    ELSE Attach(m, [SymbolData(f.kind, f.path) EXCEPT !.ops = f.vals], f.scope, FALSE)

\* Unary, Binary, Index, Array, Break, Return: operands, then the symbol.
ExprOperatorFinish(m, f) ==
    Attach(m, [SymbolData(f.kind, f.path) EXCEPT !.ops = f.vals], f.scope, FALSE)

\* A variant of the paren handler that wraps the inner symbol in a symbol of
\* its own.
ExprParenFinish_wrap(m, f) ==
    Attach(m, [SymbolData("Paren", f.path) EXCEPT !.ops = f.vals], f.scope, FALSE)

ExprParenFinish(m, f) == Res(m, f.vals[1])

ExprObjectFinish(m, f) ==
    Attach(m, [SymbolData("Object", f.path) EXCEPT !.pairs = f.pairs], f.scope, FALSE)

ExprCallFinish(m, f) ==
    Attach(m, [SymbolData("Call", f.path) EXCEPT !.ops = <<f.left>> \o f.vals],
           f.scope, FALSE)

ExprClosureFinish(m, f) ==
    \* ClosureSymbol { scope, expr }: the enclosing scope; closure_scope is
    \* given no parent symbol.
    Attach(m, [SymbolData("Closure", f.path) EXCEPT !.scope = f.scope,
                  !.ops = f.vals], f.scope, FALSE)

ExprIfFinish(m, f) == Res(add_to_scope(m, f.scope, f.sym, FALSE), f.sym)

ExprLoopFinish(m, f) ==
    LET m1 == InsertSymbol(m, [SymbolData("Loop", f.path) EXCEPT !.scope = f.sub])
        symbol == Len(m1.symbols)
        m2 == set_as_parent_symbol(m1, symbol, f.sub)
    IN  Res(add_to_scope(m2, f.scope, symbol, FALSE), symbol)

ExprForFinish(m, f) ==
    \* ForSymbol { iterable, scope }: the enclosing scope.
    LET m1 == InsertSymbol(m, [SymbolData("For", f.path) EXCEPT
                                  !.ops = f.vals, !.scope = f.scope])
        symbol == Len(m1.symbols)
        m2 == set_as_parent_symbol(m1, symbol, f.sub)
    IN  Res(add_to_scope(m2, f.scope, symbol, FALSE), symbol)

ExprWhileFinish(m, f) ==
    LET m1 == InsertSymbol(m, [SymbolData("While", f.path) EXCEPT
                                  !.ops = f.vals, !.scope = f.sub])
        symbol == Len(m1.symbols)
        m2 == set_as_parent_symbol(m1, symbol, f.sub)
    IN  Res(add_to_scope(m2, f.scope, symbol, FALSE), symbol)

ExprSwitchFinish(m, f) ==
    Attach(m, [SymbolData("Switch", f.path) EXCEPT !.ops = f.vals,
                  !.pairs = f.pairs], f.scope, TRUE)

\* A variant of the fn handler that does not hoist the definition.
ExprFnFinish_unhoisted(m, f) ==
    LET m1 == InsertSymbol(m, [SymbolData("Fn", f.path) EXCEPT
                                  !.name = f.name, !.scope = f.sub])
        symbol == Len(m1.symbols)
        m2 == add_to_scope(m1, f.scope, symbol, FALSE)
    IN  Res(set_as_parent_symbol(m2, symbol, f.sub), symbol)

ExprFnFinish(m, f) ==
    LET m1 == InsertSymbol(m, [SymbolData("Fn", f.path) EXCEPT
                                  !.name = f.name, !.scope = f.sub])
        symbol == Len(m1.symbols)
        m2 == add_to_scope(m1, f.scope, symbol, TRUE)
    IN  Res(set_as_parent_symbol(m2, symbol, f.sub), symbol)

ExprImportFinish(m, f) ==
    Attach(m, [SymbolData("Import", f.path) EXCEPT !.ops = <<f.left>> \o f.vals],
           f.scope, TRUE)

Finish(m, f) ==
    CASE f.kind = "Path" -> ExprPathFinish(m, f)
      [] f.kind \in {"Let", "Const"} -> ExprLetFinish(m, f)
      [] f.kind = "Block" -> ExprBlockFinish(m, f)
      [] f.kind \in {"Unary", "Binary", "Index", "Array", "Break", "Return"} ->
            ExprOperatorFinish(m, f)
      [] f.kind = "Paren" -> ExprParenFinish(m, f)
      [] f.kind = "Object" -> ExprObjectFinish(m, f)
      [] f.kind = "Call" -> ExprCallFinish(m, f)
      [] f.kind = "Closure" -> ExprClosureFinish(m, f)
      [] f.kind = "If" -> ExprIfFinish(m, f)
      [] f.kind = "Loop" -> ExprLoopFinish(m, f)
      [] f.kind = "For" -> ExprForFinish(m, f)
      [] f.kind = "While" -> ExprWhileFinish(m, f)
      [] f.kind = "Switch" -> ExprSwitchFinish(m, f)
      [] f.kind = "Fn" -> ExprFnFinish(m, f)
      [] f.kind = "Import" -> ExprImportFinish(m, f)

\* ------------------------------------------------------------------ resolver
IsDeclaration(sd) == sd.kind \in {"Fn", "Decl"}

\* SymbolData::name(): <<name>> for Some(name), <<>> for None.
symbol_name(sd) ==
    IF sd.kind \in {"Fn", "Decl", "Reference"} THEN <<sd.name>> ELSE <<>>

\* The declarations of one scope visible from `symbol`: the hoisted ones,
\* then the others inserted before `symbol`.
ScopeVisible(m, scope, symbol) ==
    LET s == m.scopes[scope]
    IN  SelectSeq(s.hoisted_symbols, LAMBDA h : IsDeclaration(m.symbols[h]))
        \o SelectSeq(s.symbols,
                     LAMBDA h : h < symbol /\ IsDeclaration(m.symbols[h]))

RECURSIVE VisibleFromScope(_, _, _, _)
VisibleFromScope(m, scope, symbol, fuel) ==
    IF scope = 0 \/ fuel = 0
    THEN <<>>
    ELSE LET parent == m.scopes[scope].parent_symbol
         IN  ScopeVisible(m, scope, symbol)
             \o (IF parent = 0
                 THEN <<>>
                 ELSE VisibleFromScope(m, m.symbols[parent].parent_scope,
                                       symbol, fuel - 1))

visible_symbols_from_symbol(m, symbol) ==
    VisibleFromScope(m, m.symbols[symbol].parent_scope, symbol, Len(m.scopes))

\* A variant of the resolver step whose match has the Fn arm only.
ResolveReference_fn_arm(m, symbol) ==
    LET ref_kind == m.symbols[symbol]
        m0 == [m EXCEPT !.symbols[symbol].target = 0]
        candidates ==
            SelectSeq(visible_symbols_from_symbol(m, symbol),
                      LAMBDA v : \/ symbol_name(m.symbols[v]) = <<>>
                                 \/ symbol_name(m.symbols[v]) = <<ref_kind.name>>)
        vis_symbol == candidates[1]
    IN  IF candidates = <<>>
        THEN [m |-> m0, ok |-> TRUE]
        ELSE IF m.symbols[vis_symbol].kind = "Fn"
             THEN [m |-> [m0 EXCEPT !.symbols[vis_symbol].references = @ \cup {symbol},
                                    !.symbols[symbol].target = vis_symbol],
                   ok |-> TRUE]
             ELSE [m |-> m0, ok |-> FALSE]

\* A variant of the resolver step that binds the target and leaves the
\* declaration's back-references alone.
ResolveReference_forward(m, symbol) ==
    LET ref_kind == m.symbols[symbol]
        m0 == [m EXCEPT !.symbols[symbol].target = 0]
        candidates ==
            SelectSeq(visible_symbols_from_symbol(m, symbol),
                      LAMBDA v : \/ symbol_name(m.symbols[v]) = <<>>
                                 \/ symbol_name(m.symbols[v]) = <<ref_kind.name>>)
        vis_symbol == candidates[1]
    IN  IF candidates = <<>>
        THEN [m |-> m0, ok |-> TRUE]
        ELSE IF m.symbols[vis_symbol].kind \in {"Fn", "Decl"}
             THEN [m |-> [m0 EXCEPT !.symbols[symbol].target = vis_symbol],
                   ok |-> TRUE]
             ELSE [m |-> m0, ok |-> FALSE]

\* A variant of the resolver step that skips a declaration which already
\* lists the reference.
ResolveReference_fresh(m, symbol) ==
    LET ref_kind == m.symbols[symbol]
        m0 == [m EXCEPT !.symbols[symbol].target = 0]
        candidates ==
            SelectSeq(visible_symbols_from_symbol(m, symbol),
                      LAMBDA v : /\ symbol \notin m.symbols[v].references
                                 /\ \/ symbol_name(m.symbols[v]) = <<>>
                                    \/ symbol_name(m.symbols[v]) = <<ref_kind.name>>)
        vis_symbol == candidates[1]
    IN  IF candidates = <<>>
        THEN [m |-> m0, ok |-> TRUE]
        ELSE IF m.symbols[vis_symbol].kind \in {"Fn", "Decl"}
             THEN [m |-> [m0 EXCEPT !.symbols[vis_symbol].references = @ \cup {symbol},
                                    !.symbols[symbol].target = vis_symbol],
                   ok |-> TRUE]
             ELSE [m |-> m0, ok |-> FALSE]

\* The body of the loop of resolve_references for one Reference symbol.
\* ok = FALSE: the unreachable!() arm was reached.
ResolveReference(m, symbol) ==
    LET ref_kind == m.symbols[symbol]
        m0 == [m EXCEPT !.symbols[symbol].target = 0]
        candidates ==
            SelectSeq(visible_symbols_from_symbol(m, symbol),
                      LAMBDA v : \/ symbol_name(m.symbols[v]) = <<>>
                                 \/ symbol_name(m.symbols[v]) = <<ref_kind.name>>)
        vis_symbol == candidates[1]
    IN  IF candidates = <<>>
        THEN [m |-> m0, ok |-> TRUE]
        ELSE IF m.symbols[vis_symbol].kind \in {"Fn", "Decl"}
             THEN [m |-> [m0 EXCEPT !.symbols[vis_symbol].references = @ \cup {symbol},
                                    !.symbols[symbol].target = vis_symbol],
                   ok |-> TRUE]
             ELSE [m |-> m0, ok |-> FALSE]

RECURSIVE ResolveFrom(_, _)
ResolveFrom(m, i) ==
    IF i > Len(m.symbols)
    THEN [m |-> m, ok |-> TRUE]
    ELSE IF m.symbols[i].kind = "Reference"
         THEN LET r == ResolveReference(m, i)
              IN  IF r.ok THEN ResolveFrom(r.m, i + 1) ELSE r
         ELSE ResolveFrom(m, i + 1)

resolve_references(m) == ResolveFrom(m, 1)

\* ------------------------------------------------------------------ types
\* TypeData, by kind: Array has `items`; Object `fields`, an ordered map of
\* <<name, type>>; Union `tys`, an IndexSet in insertion order; Fn
\* `is_closure`, `params` and `ret`; Alias and Unresolved a `name`.
TypeData(kind) ==
    [kind |-> kind, items |-> 0, fields |-> <<>>, tys |-> <<>>,
     is_closure |-> FALSE, params |-> <<>>, ret |-> 0, name |-> <<>>]

\* str::trim on a text.
RECURSIVE TrimStart(_)
TrimStart(t) == IF t # <<>> /\ Head(t) = " " THEN TrimStart(Tail(t)) ELSE t

RECURSIVE TrimEnd(_)
TrimEnd(t) ==
    IF t # <<>> /\ t[Len(t)] = " " THEN TrimEnd(SubSeq(t, 1, Len(t) - 1)) ELSE t

Trim(t) == TrimEnd(TrimStart(t))

RECURSIVE fmt(_, _)
RECURSIVE FieldsText(_, _, _)
RECURSIVE UnionText(_, _, _)

\* The loops over obj.fields and func.params: ", " before every entry but
\* the first, then "{name}: {type}".
FieldsText(ts, fields, i) ==
    IF i > Len(fields)
    THEN <<>>
    ELSE (IF i > 1 THEN <<",", " ">> ELSE <<>>)
         \o fields[i][1] \o <<":", " ">> \o fmt(ts, fields[i][2])
         \o FieldsText(ts, fields, i + 1)

\* The loop over the members of a union: "| " before every member but the
\* first.
UnionText(ts, tys, i) ==
    IF i > Len(tys)
    THEN <<>>
    ELSE (IF i > 1 THEN <<"|", " ">> ELSE <<>>)
         \o fmt(ts, tys[i])
         \o UnionText(ts, tys, i + 1)

\* <TypeFormatter as Display>::fmt
fmt(ts, h) ==
    LET data == ts[h]
    IN  CASE data.kind = "Module" -> <<"m", "o", "d", "u", "l", "e">>
          [] data.kind = "Int" -> <<"i", "n", "t">>
          [] data.kind = "Float" -> <<"f", "l", "o", "a", "t">>
          [] data.kind = "Bool" -> <<"b", "o", "o", "l">>
          [] data.kind = "Char" -> <<"c", "h", "a", "r">>
          [] data.kind = "String" -> <<"S", "t", "r", "i", "n", "g">>
          [] data.kind = "Timestamp" ->
                <<"t", "i", "m", "e", "s", "t", "a", "m", "p">>
          [] data.kind = "Array" -> <<"[">> \o fmt(ts, data.items) \o <<"]">>
          [] data.kind = "Object" ->
                <<"#", "{">> \o FieldsText(ts, data.fields, 1) \o <<"}">>
          [] data.kind = "Union" -> UnionText(ts, data.tys, 1)
          [] data.kind = "Void" -> <<"(", ")">>
          [] data.kind = "Fn" ->
                (IF data.is_closure THEN <<"|">> ELSE <<"f", "n", " ", "(">>)
                \o FieldsText(ts, data.params, 1)
                \o (IF data.is_closure THEN <<"|">> ELSE <<")">>)
                \o <<" ", "-", ">", " ">> \o fmt(ts, data.ret)
          [] data.kind \in {"Alias", "Unresolved"} -> Trim(data.name)
          [] data.kind = "Never" -> <<"!">>
          [] data.kind = "Unknown" -> <<"?">>

\* The types an arena entry may be, given the handles already in the arena.
PrimitiveKinds == {"Int", "String"}
TypeNames == {<<" ", "T", " ">>}
FieldLists(h) == {<<>>, <<<<<<"a">>, h>>>>, <<<<<<"a">>, h>>, <<<<"b">>, h>>>>}

\* The sequences of distinct handles: the contents of an IndexSet<Type>.
HandleSets(H) ==
    {t \in UNION {[1..n -> H] : n \in 1..Cardinality(H)} :
        \A i, j \in 1..Len(t) : i # j => t[i] # t[j]}

NewTypes(H) ==
    {TypeData(k) : k \in PrimitiveKinds}
    \cup {[TypeData("Unresolved") EXCEPT !.name = n] : n \in TypeNames}
    \cup {[TypeData("Alias") EXCEPT !.name = n, !.items = h] :
            n \in TypeNames, h \in H}
    \cup {[TypeData("Array") EXCEPT !.items = h] : h \in H}
    \cup {[TypeData("Object") EXCEPT !.fields = fs] :
            fs \in UNION {FieldLists(h) : h \in H}}
    \cup {[TypeData("Union") EXCEPT !.tys = t] : t \in HandleSets(H)}
    \cup {[TypeData("Fn") EXCEPT !.is_closure = c, !.params = ps, !.ret = h] :
            c \in BOOLEAN, h \in H, ps \in UNION {FieldLists(g) : g \in H}}

\* ------------------------------------------------------------------ grammars
\* The CSTs a build may be given: the forms, the identifier texts, the size.
Grammar == [kinds |-> AllKinds, names |-> NameTokens, max |-> MaxNodes]

\* ------------------------------------------------------------------ actions
Init ==
    /\ module = [symbols |-> <<>>, scopes |-> <<ScopeData(0, <<>>)>>,
                 root_scope |-> 1, debug_ok |-> TRUE]
    /\ stack = <<Frame("Rhai", 1, <<>>, "", "stmts")>>
    /\ cst = {}
    /\ ret = 0
    /\ phase = "build"
    /\ nodes = 0
    /\ types = <<>>
    /\ ty = 0
    /\ out = <<>>

Top == stack[Len(stack)]
SetTop(stk, f) == [stk EXCEPT ![Len(stk)] = f]
Pop(stk) == SubSeq(stk, 1, Len(stk) - 1)
Node(path, kind, name) == [path |-> path, kind |-> kind, name |-> name]

Building == phase = "build" /\ stack # <<>>
Accepting(f) == f.pc \in OptPc \cup ListPc \cup ReqPc

NamesOf(g, kind) ==
    CASE kind \in {"Ident", "Let", "Const", "Fn"} -> g.names
      [] kind = "Import" -> NameTokens
      [] OTHER -> {""}

\* add_expression on a form with no sub-expression.
LowerLeaf(g) ==
    /\ Building /\ Accepting(Top) /\ nodes < g.max
    /\ \E kind \in LeafKinds \cap g.kinds : \E name \in NamesOf(g, kind) :
        LET e == Enter(module, Top)
            path == ChildPath(e.f)
            r == Leaf(kind, e.m, ChildScope(e.f), path, name)
            o == Deliver(r.m, e.f, r.ret)
        IN  /\ module' = o.m
            /\ stack' = SetTop(stack, o.f)
            /\ ret' = r.ret
            /\ cst' = cst \cup {Node(path, kind, name)}
    /\ nodes' = nodes + 1
    /\ UNCHANGED <<phase, tyvars>>

\* add_expression is called on a form with sub-expressions and runs up to
\* the first of them.
BeginExpr(g) ==
    /\ Building /\ Accepting(Top)
    /\ \E kind \in CompositeKinds \cap g.kinds : \E name \in NamesOf(g, kind) :
        LET e == Enter(module, Top)
            path == ChildPath(e.f)
            b == Begin(kind, e.m, ChildScope(e.f), path, name)
            cost == IF kind = "Import" /\ name # "" THEN 2 ELSE 1
        IN  /\ nodes + cost <= g.max
            /\ module' = b.m
            /\ stack' = Append(SetTop(stack, e.f), b.f)
            /\ cst' = cst \cup {Node(path, kind, name)}
            /\ nodes' = nodes + cost
    /\ UNCHANGED <<ret, phase, tyvars>>

\* An optional sub-expression is missing from the CST.
AbsentExpr ==
    /\ Building /\ Top.pc \in OptPc
    /\ LET o == Deliver(module, Top, 0)
       IN  module' = o.m /\ stack' = SetTop(stack, o.f)
    /\ UNCHANGED <<cst, ret, phase, nodes, tyvars>>

\* The next parameter, pattern identifier, path segment or object field.
NameToken(g) ==
    /\ Building /\ Top.pc \in NamePc /\ nodes < g.max
    /\ \E name \in (IF Top.pc = "params" THEN g.names ELSE Names) :
        LET o == NameEvent(module, Top, name)
        IN  /\ module' = o.m
            /\ stack' = SetTop(stack, o.f)
            /\ cst' = cst \cup {Node(ChildPath(Top), Top.pc, name)}
    /\ nodes' = IF Top.pc = "fields" THEN nodes ELSE nodes + 1
    /\ UNCHANGED <<ret, phase, tyvars>>

\* A list of statements, values, arguments, parameters, segments, fields or
\* arms ends.
EndList ==
    /\ Building /\ Top.kind # "Rhai"
    /\ Top.pc \in ListPc \cup NamePc \cup {"arms"}
    /\ LET o == EndEvent(module, Top)
       IN  module' = o.m /\ stack' = SetTop(stack, o.f)
    /\ UNCHANGED <<cst, ret, phase, nodes, tyvars>>

IfTail(g) ==
    /\ Building /\ Top.pc = "tail"
    /\ \E ev \in {"else", "elseif", "none"} :
        LET o == TailEvent(module, Top, ev)
            cost == IF ev = "elseif" THEN 1 ELSE 0
        IN  /\ nodes + cost <= g.max
            /\ module' = o.m
            /\ stack' = SetTop(stack, o.f)
            /\ cst' = IF ev = "none" THEN cst
                      ELSE cst \cup {Node(o.f.bpath \o (IF ev = "else" THEN PathStep(3, 0) ELSE <<>>),
                                          IF ev = "else" THEN "Else" ELSE "If", "")}
            /\ nodes' = nodes + cost
    /\ UNCHANGED <<ret, phase, tyvars>>

SwitchArm(g) ==
    /\ Building /\ Top.pc = "arms" /\ nodes < g.max
    /\ \E ev \in {"discard", "arm"} :
        LET o == ArmEvent(module, Top, ev)
        IN  /\ module' = o.m
            /\ stack' = SetTop(stack, o.f)
            /\ cst' = cst \cup {Node(Top.path \o PathStep(2, Len(Top.pairs) + 1), "Arm", ev)}
    /\ nodes' = nodes + 1
    /\ UNCHANGED <<ret, phase, tyvars>>

\* The running add_expression call returns to its caller.
FinishExpr ==
    /\ Building /\ Top.pc = "fin"
    /\ LET r == Finish(module, Top)
           o == Deliver(r.m, stack[Len(stack) - 1], r.ret)
       IN  /\ module' = o.m
           /\ stack' = SetTop(Pop(stack), o.f)
           /\ ret' = r.ret
    /\ UNCHANGED <<cst, phase, nodes, tyvars>>

\* new_from_syntax returns: the statements of the root are exhausted.
EndModule ==
    /\ Building /\ Top.kind = "Rhai"
    /\ stack' = <<>>
    /\ phase' = "built"
    /\ UNCHANGED <<module, cst, ret, nodes, tyvars>>

\* resolve_references runs on the built module; it may run again.
ResolveReferences ==
    /\ phase \in {"built", "resolved", "reresolved"}
    /\ LET r == resolve_references(module)
       IN  /\ module' = r.m
           /\ phase' = IF ~r.ok THEN "panicked"
                       ELSE IF phase = "built" THEN "resolved" ELSE "reresolved"
    /\ UNCHANGED <<stack, cst, ret, nodes, tyvars>>

\* A type is inserted into the type arena.
AddType ==
    /\ Len(types) < MaxTypes
    /\ \E data \in NewTypes(1..Len(types)) : types' = Append(types, data)
    /\ UNCHANGED <<ty, out, hirvars>>

\* Type::fmt(hir) is displayed.
FormatType ==
    /\ \E h \in 1..Len(types) :
        /\ ty' = h
        /\ out' = fmt(types, h)
    /\ UNCHANGED <<types, hirvars>>

Build(g) ==
    \/ LowerLeaf(g)
    \/ BeginExpr(g)
    \/ AbsentExpr
    \/ NameToken(g)
    \/ EndList
    \/ IfTail(g)
    \/ SwitchArm(g)
    \/ FinishExpr
    \/ EndModule

Next == Build(Grammar) \/ ResolveReferences
Spec == Init /\ [][Next]_vars

\* The type arena is filled and its types are formatted.
TyNext == AddType \/ FormatType
SpecTy == Init /\ [][TyNext]_vars

\* ------------------------------------------------------------------ views
Symbols == 1..Len(module.symbols)
Scopes == 1..Len(module.scopes)
Sym(h) == module.symbols[h]
Scp(h) == module.scopes[h]
Members(S) == Range(Scp(S).symbols) \cup Range(Scp(S).hoisted_symbols)
References == {r \in Symbols : Sym(r).kind = "Reference"}
Declarations == {d \in Symbols : IsDeclaration(Sym(d))}

Constructed == phase \in {"built", "resolved", "reresolved"}
Resolved == phase \in {"resolved", "reresolved"}

\* p is an ancestor of q in the CST, or q itself.
Prefix(p, q) == Len(p) <= Len(q) /\ SubSeq(q, 1, Len(p)) = p

\* The node at p ends before the node at q starts.
Before(p, q) ==
    \E i \in 1..Len(p) :
        /\ i <= Len(q)
        /\ SubSeq(p, 1, i - 1) = SubSeq(q, 1, i - 1)
        /\ \/ p[i][1] < q[i][1]
           \/ p[i][1] = q[i][1] /\ p[i][2] < q[i][2]

\* ------------------------------------------------------------------ C1
\* C1: once new_from_syntax has returned, in every scope S the sets symbols
\* and hoisted_symbols are disjoint, and every handle in either has
\* parent_scope = S (so no symbol is in two scopes or in both sets).
C1_ScopeMembership ==
    Constructed =>
        \A S \in Scopes :
            /\ Range(Scp(S).symbols) \cap Range(Scp(S).hoisted_symbols) = {}
            /\ \A h \in Members(S) : Sym(h).parent_scope = S

\* A built module whose root scope holds a hoisted and a non-hoisted symbol
\* and that has a second scope with a member.
C1_Witness ==
    /\ Constructed
    /\ Scp(1).symbols # <<>> /\ Scp(1).hoisted_symbols # <<>>
    /\ \E S \in Scopes : S # 1 /\ Members(S) # {}

\* ------------------------------------------------------------------ C2
\* The symbol `s` is the construct that created the scope `S`.
Creates(s, S) ==
    LET sd == Sym(s)
    IN  CASE sd.kind = "Decl" -> sd.value = S
          [] sd.kind \in {"Fn", "Loop", "While"} -> sd.scope = S
          [] sd.kind = "If" -> \E i \in 1..Len(sd.pairs) : sd.pairs[i][2] = S
          [] sd.kind \in {"Block", "Closure"} -> Scp(S).syntax = sd.syntax
          [] sd.kind = "For" -> Scp(S).syntax = sd.syntax \o PathStep(3, 0)
          [] OTHER -> FALSE

\* C2: once construction has completed, every scope but the module root has
\* parent_symbol set, and it is the symbol of the construct that created the
\* scope (Fn, Block, Loop, For, While, If branch, Closure, let/const
\* initializer).
C2_ParentSymbolSet ==
    Constructed =>
        \A S \in Scopes \ {module.root_scope} :
            /\ Scp(S).parent_symbol # 0
            /\ Creates(Scp(S).parent_symbol, S)

\* ------------------------------------------------------------------ C3
\* C3: after resolve_references, every Reference has target None, or a
\* target of kind Fn or Decl whose references set holds the Reference.
C3_TargetsAreDeclarations ==
    Resolved =>
        \A r \in References :
            LET t == Sym(r).target
            IN  t # 0 => /\ t \in Symbols
                         /\ Sym(t).kind \in {"Fn", "Decl"}
                         /\ r \in Sym(t).references

\* A resolved module with a Reference bound to a declaration of its name and
\* a Reference left unbound.
C3_Witness ==
    /\ Resolved
    /\ \E r \in References :
            Sym(r).target # 0 /\ Sym(Sym(r).target).name = Sym(r).name
    /\ \E r \in References : Sym(r).target = 0

\* ------------------------------------------------------------------ C4
Targets(m) ==
    [r \in {h \in 1..Len(m.symbols) : m.symbols[h].kind = "Reference"} |->
        m.symbols[r].target]

\* C4: a run of resolve_references on a module that was already resolved,
\* with no construction in between, leaves every Reference with the target
\* the run before gave it.
C4_ResolutionIdempotent ==
    [][Resolved => Targets(module') = Targets(module)]_vars

\* A module resolved twice in which a Reference is bound and one is not.
C4_Witness ==
    /\ phase = "reresolved"
    /\ \E r \in References : Sym(r).target # 0
    /\ \E r \in References : Sym(r).target = 0

\* ------------------------------------------------------------------ C5
Hoisted(d) ==
    Sym(d).parent_scope # 0 /\ d \in Range(Scp(Sym(d).parent_scope).hoisted_symbols)

Visible(r) == Range(visible_symbols_from_symbol(module, r))

\* C5: in one scope, a Reference textually before the `fn` that defines its
\* name (the one `fn` of that name in the scope) has that Fn, which is
\* hoisted, as target; a Reference textually before the non-hoisted `let`
\* declaring its name, with no other visible declaration of the name, has
\* target None.
C5_Hoisting ==
    Resolved =>
        \A r \in References :
            LET S == Sym(r).parent_scope
                same == {d \in Members(S) \cap Declarations :
                            Sym(d).name = Sym(r).name}
            IN  /\ \A f \in same :
                    /\ Sym(f).kind = "Fn"
                    /\ Before(Sym(r).syntax, Sym(f).syntax)
                    /\ \A d \in same \ {f} : Sym(d).kind # "Fn"
                    => Hoisted(f) /\ Sym(r).target = f
                /\ \A d \in same :
                    /\ Sym(d).kind = "Decl" /\ ~Hoisted(d)
                    /\ Before(Sym(r).syntax, Sym(d).syntax)
                    /\ \A x \in Visible(r) \ {d} : Sym(x).name # Sym(r).name
                    => Sym(r).target = 0

\* `a; let a`: the Reference stays unbound although its scope declares its
\* name later.
C5_Witness ==
    /\ Resolved
    /\ \E r \in References : \E d \in Declarations :
        /\ Sym(d).kind = "Decl" /\ Sym(d).name = Sym(r).name
        /\ Sym(d).parent_scope = Sym(r).parent_scope
        /\ Before(Sym(r).syntax, Sym(d).syntax)
        /\ Sym(r).target = 0

\* ------------------------------------------------------------------ C6
RECURSIVE ScopeChainFrom(_, _)
ScopeChainFrom(S, fuel) ==
    IF S = 0 \/ fuel = 0 THEN <<>>
    ELSE <<S>> \o (IF Scp(S).parent_symbol = 0 THEN <<>>
                   ELSE ScopeChainFrom(Sym(Scp(S).parent_symbol).parent_scope,
                                       fuel - 1))

\* The scopes from the scope of r up its parent chain, nearest first.
ScopeChain(r) == ScopeChainFrom(Sym(r).parent_scope, Len(module.scopes))

\* d is a let/const of the name of r, in the scope of a construct c that
\* encloses r, and textually precedes c; r is in a scope nested in c.
PrecedesEnclosing(d, r) ==
    /\ Sym(d).kind = "Decl" /\ ~Sym(d).is_param /\ ~Sym(d).is_pat
    /\ Sym(d).parent_scope # 0
    /\ Sym(d).name = Sym(r).name
    /\ Sym(r).parent_scope # Sym(d).parent_scope
    /\ \E c \in Members(Sym(d).parent_scope) :
        /\ Prefix(Sym(c).syntax, Sym(r).syntax)
        /\ Before(Sym(d).syntax, Sym(c).syntax)

\* C6: a Reference in a nested scope (block body, if branch, loop/for/while
\* body, closure body, let/const initializer) sees a same-named let/const
\* that precedes the enclosing construct in an ancestor scope, so it is
\* bound; and it is bound to a declaration of the nearest scope of its chain
\* that offers one.
C6_LexicalScoping ==
    Resolved =>
        \A r \in References :
            /\ (\E d \in Declarations : PrecedesEnclosing(d, r))
                    => Sym(r).target # 0
            /\ Sym(r).target # 0 =>
                LET chain == ScopeChain(r)
                    offers(i) == \E x \in Visible(r) :
                                    /\ Sym(x).parent_scope = chain[i]
                                    /\ Sym(x).name = Sym(r).name
                IN  \E i \in 1..Len(chain) :
                        /\ Sym(Sym(r).target).parent_scope = chain[i]
                        /\ \A j \in 1..(i - 1) : ~offers(j)

\* ------------------------------------------------------------------ C7
\* The part of the CST a block or let/const initializer node N encloses:
\* the statements of the block, the initializer expression.
Encloses(N, q) ==
    IF N.kind = "Block"
    THEN Prefix(N.path, q) /\ q # N.path
    ELSE Prefix(N.path \o PathStep(1, 1), q)

\* C7: a declaration made inside a block or a let/const initializer is not
\* visible from, and is not the target of, a Reference outside it.
C7_ScopeIsolation ==
    Resolved =>
        \A N \in cst : N.kind \in {"Block", "Let", "Const"} =>
            \A d \in Declarations : Encloses(N, Sym(d).syntax) =>
                \A r \in References : ~Encloses(N, Sym(r).syntax) =>
                    /\ Sym(r).target # d
                    /\ d \notin Visible(r)

\* `{ let a; } a`: the Reference after the block stays unbound.
C7_Witness ==
    /\ Resolved
    /\ \E N \in cst : \E d \in Declarations : \E r \in References :
        /\ N.kind = "Block"
        /\ Encloses(N, Sym(d).syntax)
        /\ ~Encloses(N, Sym(r).syntax)
        /\ Before(Sym(d).syntax, Sym(r).syntax)
        /\ Sym(d).name = Sym(r).name
        /\ Sym(r).target = 0

\* ------------------------------------------------------------------ C8
Parent(p) == SubSeq(p, 1, Len(p) - 1)

\* The path of the i-th `if` of the chain that starts at p: each else-if is
\* the nested If node of the one before.
RECURSIVE ChainPath(_, _)
ChainPath(p, i) == IF i <= 1 THEN p ELSE ChainPath(p, i - 1) \o PathStep(4, 1)

ChainRoots ==
    {N.path : N \in {M \in cst : M.kind = "If" /\ M.path[Len(M.path)] # <<4, 1>>}}

ChainLen(p) ==
    Cardinality({i \in 1..Cardinality(cst) : Node(ChainPath(p, i), "If", "") \in cst})

HasElse(p) == Node(ChainPath(p, ChainLen(p)) \o PathStep(3, 0), "Else", "") \in cst

\* h is what lowering the expression at q returns: None when it is missing,
\* else a symbol of that expression.
LoweredAt(h, q) ==
    LET at == {N \in cst : N.path = q}
    IN  IF at = {} THEN h = 0
        ELSE \A N \in at :
                /\ h # 0 => Prefix(q, Sym(h).syntax)
                /\ N.kind \notin {"Paren", "PathNone"} => h # 0 /\ Sym(h).syntax = q

\* C8: an if / else-if / else chain of n conditions is one If symbol, at the
\* first `if`, whose branches are the n (condition, scope) pairs in source
\* order and then, with a trailing else, a final (None, scope); the scopes
\* are distinct, each has the If symbol as parent_symbol and holds the
\* statements of its branch; no If symbol is made for an else-if.
C8_IfChainFlattening ==
    Constructed =>
        \A p \in ChainRoots :
            LET n == ChainLen(p)
                ifs == {s \in Symbols :
                            /\ Sym(s).kind = "If"
                            /\ \E i \in 1..n : Sym(s).syntax = ChainPath(p, i)}
            IN  /\ Cardinality(ifs) = 1
                /\ \A s \in ifs :
                    LET b == Sym(s).pairs
                    IN  /\ Sym(s).syntax = p
                        /\ Len(b) = n + (IF HasElse(p) THEN 1 ELSE 0)
                        /\ \A i \in 1..n :
                            /\ LoweredAt(b[i][1], ChainPath(p, i) \o PathStep(1, 1))
                            /\ Scp(b[i][2]).syntax = ChainPath(p, i) \o PathStep(2, 0)
                        /\ HasElse(p) =>
                            /\ b[n + 1][1] = 0
                            /\ Scp(b[n + 1][2]).syntax = ChainPath(p, n) \o PathStep(3, 0)
                        /\ \A i, j \in 1..Len(b) : i # j => b[i][2] # b[j][2]
                        /\ \A i \in 1..Len(b) :
                            /\ Scp(b[i][2]).parent_symbol = s
                            /\ \A x \in Symbols :
                                /\ Sym(x).parent_scope # 0
                                /\ Len(Sym(x).syntax) > 0
                                /\ Parent(Sym(x).syntax) = Parent(Scp(b[i][2]).syntax)
                                /\ Sym(x).syntax[Len(Sym(x).syntax)][1] =
                                        Scp(b[i][2]).syntax[Len(Scp(b[i][2]).syntax)][1]
                                => Sym(x).parent_scope = b[i][2]

\* `if a {} else if {} else {}`: one If symbol with three branches.
C8_Witness ==
    /\ Constructed
    /\ \E s \in Symbols :
        /\ Sym(s).kind = "If"
        /\ Len(Sym(s).pairs) = 3
        /\ Sym(s).pairs[1][1] # 0
        /\ Sym(s).pairs[3][1] = 0
        /\ ChainLen(Sym(s).syntax) = 2 /\ HasElse(Sym(s).syntax)

\* ------------------------------------------------------------------ C9
IsBinder(d) == Sym(d).kind = "Decl" /\ (Sym(d).is_pat \/ Sym(d).is_param)

\* C9: every pattern identifier of a `for` is a Decl with is_pat, every
\* closure parameter a Decl with is_param, in the scope of the body and
\* inserted there before the symbols of the body; a Reference in the body
\* named as a binder, with no other declaration of that name offered by the
\* scopes from its own up to the body scope, has a binder of that name as
\* target.
C9_Binders ==
    /\ Constructed =>
        \A N \in cst : N.kind \in {"pat", "params"} =>
            \A O \in cst : O.path = Parent(N.path) /\ O.kind \in {"For", "Closure"} =>
                \E d \in Symbols :
                    /\ Sym(d).syntax = N.path
                    /\ Sym(d).kind = "Decl"
                    /\ Sym(d).name = N.name
                    /\ Sym(d).is_pat = (O.kind = "For")
                    /\ Sym(d).is_param = (O.kind = "Closure")
                    /\ Sym(d).parent_scope # 0
                    /\ LET S == Sym(d).parent_scope
                           body == IF O.kind = "For" THEN 3 ELSE 2
                       IN  /\ d \in Range(Scp(S).symbols)
                           /\ Scp(S).syntax = IF O.kind = "For"
                                              THEN O.path \o PathStep(3, 0)
                                              ELSE O.path
                           /\ \A x \in Members(S) : IsBinder(x) \/ x > d
                           /\ \A x \in Symbols :
                                /\ Sym(x).parent_scope # 0
                                /\ Len(Sym(x).syntax) > 0
                                /\ Parent(Sym(x).syntax) = O.path
                                /\ Sym(x).syntax[Len(Sym(x).syntax)][1] = body
                                => Sym(x).parent_scope = S
    /\ Resolved =>
        \A r \in References :
            LET chain == ScopeChain(r)
            IN  \A i \in 1..Len(chain) :
                    LET binders == {d \in Members(chain[i]) :
                                        IsBinder(d) /\ Sym(d).name = Sym(r).name}
                        shadow == {x \in Visible(r) \ binders :
                                        /\ Sym(x).name = Sym(r).name
                                        /\ \E j \in 1..i : Sym(x).parent_scope = chain[j]}
                    IN  binders # {} /\ shadow = {} => Sym(r).target \in binders

\* `for a in { a }` or `|a| a`: the Reference of the body is bound to the
\* binder.
C9_Witness ==
    /\ Resolved
    /\ \E r \in References :
        /\ Sym(r).target # 0
        /\ IsBinder(Sym(r).target)
        /\ Sym(Sym(r).target).parent_scope = Sym(r).parent_scope
        /\ Sym(r).parent_scope # module.root_scope

\* ------------------------------------------------------------------ C10
\* C10: a parenthesised expression makes no symbol of its own: when its
\* handler returns, no symbol has been added, the value returned is the one
\* the inner expression returned (None when it is missing), and that symbol
\* is in the scope the parenthesised expression was lowered into.
C10_ParenPassThrough ==
    /\ [](\A N \in cst : N.kind = "Paren" =>
            \A x \in Symbols : Sym(x).syntax # N.path)
    /\ [][Building /\ Top.pc = "fin" /\ Top.kind = "Paren" =>
            /\ module'.symbols = module.symbols
            /\ ret' = (IF \E N \in cst : N.path = Top.path \o PathStep(1, 1)
                       THEN ret ELSE 0)
            /\ ret' # 0 => module.symbols[ret'].parent_scope = Top.scope]_vars

\* `((a))` has been lowered: the symbol of `a` is what both handlers
\* returned.
C10_Witness ==
    \E N \in cst :
        /\ N.kind = "Paren"
        /\ Node(N.path \o PathStep(1, 1), "Paren", "") \in cst
        /\ \A i \in 1..Len(stack) : ~Prefix(N.path, stack[i].path)
        /\ ret \in Symbols
        /\ Sym(ret).syntax = N.path \o PathStep(1, 1) \o PathStep(1, 1)
        /\ Sym(ret).parent_scope = module.root_scope

\* ------------------------------------------------------------------ C11
\* Forward edges of a symbol: the symbols its kind-specific fields hold
\* (operands, arguments, segments, conditions, arm patterns and values,
\* field values, closure body, import alias) ...
ChildSymbols(s) ==
    LET sd == Sym(s)
        inPairs ==
            CASE sd.kind = "If" -> {sd.pairs[i][1] : i \in 1..Len(sd.pairs)}
              [] sd.kind = "Switch" ->
                    {sd.pairs[i][1] : i \in 1..Len(sd.pairs)}
                    \cup {sd.pairs[i][2] : i \in 1..Len(sd.pairs)}
              [] sd.kind = "Object" -> {sd.pairs[i][2] : i \in 1..Len(sd.pairs)}
              [] OTHER -> {}
    IN  (Range(sd.ops) \cup inPairs) \ {0}

\* ... and the scopes they hold (scope, value scope, branch scopes).
ChildScopes(s) ==
    LET sd == Sym(s)
        inPairs == IF sd.kind = "If"
                   THEN {sd.pairs[i][2] : i \in 1..Len(sd.pairs)}
                   ELSE {}
    IN  ({sd.scope, sd.value} \cup inPairs) \ {0}

\* Closure of a set of symbols and a set of scopes under the forward edges.
RECURSIVE Descend(_, _)
Descend(syms, scps) ==
    LET syms1 == syms \cup UNION {Members(S) : S \in scps}
                      \cup UNION {ChildSymbols(s) : s \in syms}
        scps1 == scps \cup UNION {ChildScopes(s) : s \in syms}
    IN  IF syms1 = syms /\ scps1 = scps
        THEN [symbols |-> syms, scopes |-> scps]
        ELSE Descend(syms1, scps1)

\* C11: after construction every symbol of the arena is reached from the
\* root scope through scope membership and the child edges of symbols.
C11_Reachable ==
    Constructed => Symbols \subseteq Descend({}, {module.root_scope}).symbols

\* ------------------------------------------------------------------ C12
\* C12: following forward edges from a symbol never leads back to it.
C12_ForwardAcyclic ==
    Constructed =>
        \A s \in Symbols : s \notin Descend(ChildSymbols(s), ChildScopes(s)).symbols

\* ------------------------------------------------------------------ C13
\* For the forms with optional sub-expressions: the part of the node each
\* entry of the symbol's operand list is lowered from.
OperandParts(kind) ==
    CASE kind \in {"Unary", "Break", "Return", "Call", "While", "Switch"} -> <<1>>
      [] kind \in {"Binary", "Index"} -> <<1, 2>>
      [] kind = "For" -> <<2>>

\* C13: whatever names and sub-expressions the CST lacks, every let, const,
\* fn and parameter node has its Decl / Fn symbol, attached to a scope and
\* named by the token text (the empty string for a missing token), and
\* every unary, binary, index, call, break, return, while, for and switch
\* node has its own symbol, attached to a scope, whose operand slot is None
\* exactly where the sub-expression is missing or lowers to None.
C13_TotalOnIllFormed ==
    Constructed =>
        \A N \in cst :
            /\ N.kind \in {"Let", "Const", "Fn"} =>
                \E s \in Symbols :
                    /\ Sym(s).syntax = N.path
                    /\ Sym(s).kind = (IF N.kind = "Fn" THEN "Fn" ELSE "Decl")
                    /\ Sym(s).name = N.name
                    /\ Sym(s).parent_scope # 0
            /\ N.kind = "params" =>
                \E s \in Symbols :
                    /\ Sym(s).syntax = N.path
                    /\ Sym(s).kind = "Decl" /\ Sym(s).is_param
                    /\ Sym(s).name = N.name
                    /\ Sym(s).parent_scope # 0
            /\ N.kind \in {"Unary", "Binary", "Index", "Call", "Break", "Return",
                           "While", "For", "Switch"} =>
                \E s \in Symbols :
                    /\ Sym(s).syntax = N.path
                    /\ Sym(s).kind = N.kind
                    /\ Sym(s).parent_scope # 0
                    /\ LET parts == OperandParts(N.kind)
                       IN  /\ Len(Sym(s).ops) >= Len(parts)
                           /\ \A k \in 1..Len(parts) :
                                LoweredAt(Sym(s).ops[k], N.path \o PathStep(parts[k], 1))

\* `let ;  fn () {}  <binary with no operand>`: two nameless declarations
\* and an operator symbol with None in both slots.
C13_Witness ==
    /\ Constructed
    /\ \E s \in Symbols :
        Sym(s).kind = "Decl" /\ Sym(s).name = "" /\ Sym(s).parent_scope # 0
    /\ \E s \in Symbols :
        Sym(s).kind = "Fn" /\ Sym(s).name = "" /\ Sym(s).parent_scope # 0
    /\ \E s \in Symbols :
        Sym(s).kind = "Binary" /\ Sym(s).ops = <<0, 0>> /\ Sym(s).parent_scope # 0

C15_EmptyNameNeverMatches ==
    Resolved =>
        \A r \in References :
            Sym(r).target # 0 => Sym(Sym(r).target).name # ""

\* ------------------------------------------------------------------ C16
\* C16: arena order is CST traversal order with children before parents: a
\* symbol lowered from inside a construct is inserted before the symbol of
\* the construct, and a symbol of a textually earlier expression before one
\* of a textually later expression.
C16_ArenaOrder ==
    Constructed =>
        \A x, y \in Symbols :
            /\ x # y /\ Prefix(Sym(y).syntax, Sym(x).syntax) => x < y
            /\ Before(Sym(x).syntax, Sym(y).syntax) => x < y

\* ------------------------------------------------------------------ C17
\* The texts joined by a separator.
RECURSIVE Join(_, _)
Join(texts, sep) ==
    IF texts = <<>> THEN <<>>
    ELSE IF Len(texts) = 1 THEN texts[1]
    ELSE texts[1] \o sep \o Join(Tail(texts), sep)

\* C17: a Union is written as the texts of its members, in set order,
\* joined by " | "; a union of one member as that member alone.
C17_UnionFormat ==
    ty # 0 /\ types[ty].kind = "Union" =>
        out = Join([i \in 1..Len(types[ty].tys) |-> fmt(types, types[ty].tys[i])],
                   <<" ", "|", " ">>)

\* ------------------------------------------------------------------ C18
\* C18: every add_to_scope and set_as_parent_symbol call of a build meets
\* its debug assertions (the symbol is in neither set of the scope and has
\* the null parent_scope; the scope has no parent_symbol yet), and a
\* parent_symbol, once Some, is never changed.
C18_DebugPreconditions ==
    /\ [](module.debug_ok)
    /\ [][\A S \in Scopes :
            Scp(S).parent_symbol # 0 =>
                module'.scopes[S].parent_symbol = Scp(S).parent_symbol]_vars

\* `let a = { }` and a hoisted symbol have been lowered: an initializer
\* scope adopted after its Decl was inserted, a block scope adopted at
\* once, symbols attached to both sets of the root scope.
C18_Witness ==
    /\ Constructed
    /\ \E d \in Symbols :
        /\ Sym(d).kind = "Decl" /\ Sym(d).value # 0
        /\ Scp(Sym(d).value).parent_symbol = d
        /\ \E b \in Members(Sym(d).value) : Sym(b).kind = "Block"
    /\ Scp(module.root_scope).hoisted_symbols # <<>>
    /\ Scp(module.root_scope).symbols # <<>>

\* ------------------------------------------------------------------ C19
\* C19: the `scope` field of a Block symbol is the fresh scope of the block:
\* the scope made for the block's syntax, whose parent_symbol is the Block
\* and which holds the block's statements; not the scope the Block symbol
\* is a member of.
C19_BlockScopeField ==
    Constructed =>
        \A b \in Symbols : Sym(b).kind = "Block" =>
            /\ Sym(b).scope # Sym(b).parent_scope
            /\ Scp(Sym(b).scope).parent_symbol = b
            /\ Scp(Sym(b).scope).syntax = Sym(b).syntax
            /\ \A x \in Symbols :
                /\ Sym(x).parent_scope # 0
                /\ Len(Sym(x).syntax) > 0
                /\ Parent(Sym(x).syntax) = Sym(b).syntax
                => Sym(x).parent_scope = Sym(b).scope

\* ------------------------------------------------------------------ C20
\* The parameter Decls of fn definitions: the Decls in the scope a Fn
\* symbol records.
FnScopes == {Sym(f).scope : f \in {g \in Symbols : Sym(g).kind = "Fn"}}
FnParams == {d \in Symbols : Sym(d).kind = "Decl" /\ Sym(d).parent_scope \in FnScopes}

\* C20: the scope of a fn holds its parameter Decls and nothing else, and is
\* on the parent chain of no Reference; after resolution every fn parameter
\* has an empty references set and is the target of no Reference.
C20_FnParamsNeverReferenced ==
    /\ Constructed =>
        \A S \in FnScopes :
            /\ \A x \in Members(S) : Sym(x).kind = "Decl" /\ Sym(x).is_param
            /\ \A r \in References : S \notin Range(ScopeChain(r))
    /\ Resolved =>
        \A d \in FnParams :
            /\ Sym(d).references = {}
            /\ \A r \in References : Sym(r).target # d

\* `fn (a) { a }`: a Reference in the body of a fn named as its parameter,
\* lowered into the scope the fn is in and left unbound.
C20_Witness ==
    /\ Resolved
    /\ \E f \in Symbols : \E d \in FnParams : \E r \in References :
        /\ Sym(f).kind = "Fn"
        /\ Sym(d).parent_scope = Sym(f).scope
        /\ Sym(d).name = Sym(r).name
        /\ Prefix(Sym(f).syntax, Sym(r).syntax)
        /\ Sym(r).parent_scope = Sym(f).parent_scope
        /\ Sym(r).target = 0

\* ------------------------------------------------------------------ C21
\* The scopes a symbol is a member of, and the number of member sets
\* (symbols / hoisted_symbols, over all scopes) that hold it.
ScopesOf(h) == {S \in Scopes : h \in Members(S)}
MemberSetsOf(h) ==
    Cardinality({S \in Scopes : h \in Range(Scp(S).symbols)})
        + Cardinality({S \in Scopes : h \in Range(Scp(S).hoisted_symbols)})

\* C21: after construction every symbol of the arena is a member of exactly
\* one scope, in exactly one of its symbols / hoisted_symbols sets, and has
\* a non-default parent_scope; the Discard symbol of a switch arm and the
\* alias Decl of an import included.
C21_EverySymbolInOneScope ==
    Constructed =>
        \A h \in Symbols :
            /\ Cardinality(ScopesOf(h)) = 1
            /\ MemberSetsOf(h) = 1
            /\ Sym(h).parent_scope # 0

====
